---- MODULE Spec2Model ----
(***************************************************************************)
(* Model of app/main.py: the POST /tick handler (monitor), the background  *)
(* pipeline it schedules (monitor_task), the four database probes run by   *)
(* asyncio.gather, the aggregation of their results into a notification    *)
(* payload and the delivery POST to return_url.                            *)
(*                                                                         *)
(* Text is modelled as a sequence of tokens (words).  A Python substring   *)
(* test `"Error" in s` is the test that the token "Error" occurs in the    *)
(* sequence; the token "Error" stands for any word containing that         *)
(* substring, "error" (lower case) is a different token.  NL is "\n".      *)
(***************************************************************************)
EXTENDS Integers, Sequences, FiniteSets, TLC

\* ---------------------------------------------------------------- bounds
MaxReq == 2        \* POST /tick requests in flight in SpecTriggers
MaxSettings == 2   \* length of a payload's settings list
MaxRows == 2       \* rows pg_stat_activity returns to the long-query probe

\* ------------------------------------------------------ values and inputs
NL == "\n"
NoneVal == [type |-> "None", body |-> <<>>]
Pending == [type |-> "Pending", body |-> <<>>]
StrVal(text) == [type |-> "str", body |-> text]
DictVal(items) == [type |-> "dict", body |-> items]
ExcVal(text) == [type |-> "exc", body |-> text]

SeqsUpTo(S, n) == UNION {[1..k -> S] : k \in 0..n}

GoodUrl == "postgresql://db"
JunkUrl == "junk"
Defaults == {"", GoodUrl, JunkUrl}
ReturnUrls == {"https://a/hook", "https://b/hook"}

\* The settings of /integration: a database_url with any of the defaults, an
\* Interval with its cron default.
Setting ==
    [label : {"database_url"}, type : {"text"}, required : {TRUE}, default : Defaults]
        \cup [label : {"Interval"}, type : {"text"}, required : {TRUE},
              default : {"*/4 * * * *"}]

MonitorPayLoad ==
    [channel_id : {"c"}, return_url : ReturnUrls,
     settings : SeqsUpTo(Setting, MaxSettings)]

NoPayload == [channel_id |-> "", return_url |-> "", settings |-> <<>>]

\* What the database and the network can answer.
ErrTexts == {<<"connection", "refused">>, <<"Error", "timeout">>}
ParseErrText == <<"Could", "not", "parse", "URL">>
DsnErrText == <<"invalid", "DSN">>
SizeTexts == {<<"8", "MB">>}
CountTexts == {<<"3">>}
QueryTexts == {<<"SELECT", "1">>, <<"RAISE", "Error">>}
Row == [pid : {"7"}, state : {"active"}, query : QueryTexts, duration : {"12"}]

Event(kind, text, rows) == [kind |-> kind, text |-> text, rows |-> rows]

\* ------------------------------------------------------------ pure code
\* Mutant of first_match: a later setting with the same label overrides.
RECURSIVE last_match(_, _, _)
last_match(settings, label, default) ==
    IF settings = <<>> THEN default
    ELSE IF settings[Len(settings)].label = label
         THEN settings[Len(settings)].default
    ELSE last_match(SubSeq(settings, 1, Len(settings) - 1), label, default)

RECURSIVE first_match(_, _, _)
first_match(settings, label, default) ==
    IF settings = <<>> THEN default
    ELSE IF Head(settings).label = label THEN Head(settings).default
    ELSE first_match(Tail(settings), label, default)

get_setting(payload, label, default) ==
    first_match(payload.settings, label, default)

\* Python's None where a str is expected (get_setting's default); it is no
\* member of Defaults.
PyNone == "<None>"

\* `not database_url`: None and the empty string are falsy.
Falsy(v) == v = PyNone \/ v = ""

\* get_db_engine: the scheme is rewritten for the async driver; create_async_engine
\* raises on a string it cannot parse as a URL.
get_db_engine(database_url) ==
    LET url == IF database_url = GoodUrl THEN "postgresql+asyncpg://db"
               ELSE database_url
    IN [raised |-> database_url = JunkUrl, url |-> url]

NoUrlDict ==
    DictVal(<< <<"status", <<"error">> >>,
               <<"message", <<"No", "database", "URL", "provided.">> >> >>)

check_database_connection(database_url, e) ==
    IF Falsy(database_url) THEN NoUrlDict
    ELSE IF e.kind = "ok"
         THEN DictVal(<< <<"status", <<"success">> >>,
                         <<"message", <<"Database", "is", "reachable">> >> >>)
         ELSE DictVal(<< <<"status", <<"error">> >>, <<"message", e.text>> >>)

get_database_size(database_url, e) ==
    IF Falsy(database_url) THEN NoUrlDict
    ELSE IF get_db_engine(database_url).raised THEN ExcVal(ParseErrText)
    ELSE IF e.kind = "ok"
         THEN StrVal(<<"Database", "size:">> \o e.text)
         ELSE StrVal(<<"Error", "retrieving", "database", "size:">> \o e.text)

get_active_connections(database_url, e) ==
    IF Falsy(database_url) THEN NoUrlDict
    ELSE IF get_db_engine(database_url).raised THEN ExcVal(ParseErrText)
    ELSE IF e.kind = "ok"
         THEN DictVal(<< <<"status", <<"success">> >>,
                         <<"active_connections", e.text>> >>)
         ELSE DictVal(<< <<"status", <<"error">> >>, <<"message", e.text>> >>)

FormatRow(q) ==
    <<"PID:", q.pid, "State:", q.state, "Query:">> \o q.query
        \o <<"Duration:", q.duration>>

RECURSIVE Join(_, _)
Join(sep, texts) ==
    IF texts = <<>> THEN <<>>
    ELSE IF Len(texts) = 1 THEN texts[1]
    ELSE texts[1] \o <<sep>> \o Join(sep, Tail(texts))

get_long_running_queries(database_url, e) ==
    IF Falsy(database_url) THEN NoUrlDict
    ELSE IF get_db_engine(database_url).raised THEN ExcVal(ParseErrText)
    ELSE IF e.kind = "ok"
         THEN LET queries == [k \in 1..Len(e.rows) |-> FormatRow(e.rows[k])]
              IN IF queries # <<>> THEN StrVal(Join(NL, queries))
                 ELSE StrVal(<<"No", "long-running", "queries">>)
         ELSE StrVal(<<"Error", "retrieving", "long-running", "queries:">> \o e.text)

\* monitoring_tasks, in the order of the list in monitor_task.
Probes == 1..4

\* threshold of get_long_running_queries, interpolated into its SQL.
threshold == 10

\* The pool or engine probe i created, when the probe has completed:
\* check_database_connection closes its pool (async with), get_active_connections
\* disposes its engine (finally), get_database_size and get_long_running_queries
\* never dispose theirs; a probe that returned or raised before creating one
\* has none.
EngineAfter(i, database_url, e) ==
    IF Falsy(database_url) THEN "none"
    ELSE CASE i = 1 -> IF e.kind = "ok" THEN "closed" ELSE "none"
           [] i = 2 -> IF get_db_engine(database_url).raised THEN "none" ELSE "open"
           [] i = 3 -> IF get_db_engine(database_url).raised THEN "none" ELSE "disposed"
           [] i = 4 -> IF get_db_engine(database_url).raised THEN "none" ELSE "open"

\* Mutant of ProbeResult: two entries of the list swapped.
monitoring_tasks_swapped(i, database_url, e) ==
    CASE i = 1 -> check_database_connection(database_url, e)
      [] i = 2 -> get_active_connections(database_url, e)
      [] i = 3 -> get_database_size(database_url, e)
      [] i = 4 -> get_long_running_queries(database_url, e)

ProbeResult(i, database_url, e) ==
    CASE i = 1 -> check_database_connection(database_url, e)
      [] i = 2 -> get_database_size(database_url, e)
      [] i = 3 -> get_active_connections(database_url, e)
      [] i = 4 -> get_long_running_queries(database_url, e)

\* The answers the environment can give probe i for a database URL.
ProbeEvents(i, database_url) ==
    IF database_url = JunkUrl
    THEN IF i = 1 THEN {Event("fail", DsnErrText, <<>>)}
                  ELSE {Event("raise", ParseErrText, <<>>)}
    ELSE {Event("fail", m, <<>>) : m \in ErrTexts} \cup
         CASE i = 1 -> {Event("ok", <<>>, <<>>)}
           [] i = 2 -> {Event("ok", v, <<>>) : v \in SizeTexts}
           [] i = 3 -> {Event("ok", v, <<>>) : v \in CountTexts}
           [] i = 4 -> {Event("ok", <<>>, rows) : rows \in SeqsUpTo(Row, MaxRows)}

\* A healthy database: every probe succeeds.
HealthyEvents(i, database_url) ==
    {e \in ProbeEvents(i, database_url) : e.kind = "ok" /\ e.rows = <<>>}

\* str() of a probe result.
RECURSIVE DictItems(_)
DictItems(items) ==
    IF items = <<>> THEN <<>>
    ELSE <<Head(items)[1]>> \o Head(items)[2] \o DictItems(Tail(items))

Str(res) ==
    CASE res.type = "dict" -> <<"{">> \o DictItems(res.body) \o <<"}">>
      [] res.type = "None" -> <<"None">>
      [] OTHER -> res.body

Contains(text, token) == \E k \in 1..Len(text) : text[k] = token

\* formatted_results, lines 168-173.
FormattedResults(results) ==
    [k \in 1..Len(results) |->
        IF results[k].type = "exc" THEN <<"Error">> \o Str(results[k])
        ELSE Str(results[k])]

\* Mutant of ResultsText: the report stops at the first result that reads as
\* an error.
ResultsTextStopAtError(results) ==
    LET texts == [k \in 1..Len(results) |->
                     IF results[k] # NoneVal THEN Str(results[k])
                     ELSE <<"Error", "Missing", "result">>]
        bad == {k \in 1..Len(results) :
                   Contains(texts[k], "Error") \/ Contains(texts[k], "error")}
        n == IF bad = {} THEN Len(results)
             ELSE CHOOSE k \in bad : \A j \in bad : k <= j
    IN Join(NL, SubSeq(texts, 1, n))

\* Mutant of ResultsText: the report is joined from formatted_results.
ResultsTextFormatted(results) == Join(NL, FormattedResults(results))

\* results_text, line 176.
ResultsText(results) ==
    Join(NL, [k \in 1..Len(results) |->
                 IF results[k] # NoneVal THEN Str(results[k])
                 ELSE <<"Error", "Missing", "result">>])

\* status, line 177.
StatusOf(results_text) ==
    IF Contains(results_text, "Error") THEN "error" ELSE "success"

\* Mutant of NotificationPayload: another vocabulary for the status.
NotificationPayloadOtherStatus(results_text, status) ==
    [message |-> results_text, username |-> "DB Monitor",
     event_name |-> "Database Check",
     status |-> IF status = "error" THEN "failure" ELSE "ok"]

\* notification_payload, lines 180-185.
NotificationPayload(results_text, status) ==
    [message |-> results_text, username |-> "DB Monitor",
     event_name |-> "Database Check", status |-> status]

\* Mutant of GatherStore: results are collected in completion order.
GatherStoreCompletionOrder(results, i, res) ==
    LET free == {k \in DOMAIN results : results[k] = Pending}
    IN IF free = {} THEN results
       ELSE [results EXCEPT ![CHOOSE k \in free : \A j \in free : k <= j] = res]

\* asyncio.gather stores the result of child i at index i of its result list.
GatherStore(results, i, res) == [results EXCEPT ![i] = res]

\* Mutant of GatherReady: the first child that raises ends the gather.
GatherReadyFailFast(futs) ==
    \/ \A i \in Probes : futs[i] # Pending
    \/ \E i \in Probes : futs[i].type = "exc"

\* gather(..., return_exceptions=True) completes when every child has completed.
GatherReady(futs) == \A i \in Probes : futs[i] # Pending

\* ---------------------------------------------------------------- state
VARIABLES
    pc,                \* per request: idle, accepted, gather, posting, done
    request,           \* the MonitorPayLoad the handler received
    response,          \* the handler's HTTP response
    background_tasks,  \* the request's BackgroundTasks queue
    runs,              \* monitor_task runs started for the request
    payload,           \* monitor_task's argument
    database_url,      \* monitor_task's local
    fut,               \* the four child tasks of gather: their results
    ev,                \* history: what the environment answered each probe
    outOfOrder,        \* history: a probe completed before an earlier-submitted one
    results,           \* gather's result list
    formatted_results, \* monitor_task's local
    notification,      \* monitor_task's local notification_payload
    posts,             \* the POSTs the run's httpx client issued
    task_return,       \* what monitor_task returned
    log,               \* logger.error calls of monitor_task
    engines,           \* per probe: the pool or engine it created
    sql_threshold      \* the threshold in the SQL of get_long_running_queries

vars == <<pc, request, response, background_tasks, runs, payload, database_url,
          fut, ev, outOfOrder, results, formatted_results, notification, posts,
          task_return, log, engines, sql_threshold>>

Reqs == DOMAIN pc

NoResponse == [status_code |-> 0, body |-> ""]
Ack == [status_code |-> 202, body |-> "success"]
NoEvent == Event("none", <<>>, <<>>)
NoNotification == NotificationPayload(<<>>, "")
NotReturned == [type |-> "running", body |-> <<>>]
NoUrlReturn ==
    DictVal(<< <<"error", <<"No", "valid", "database_url", "provided",
                            "in", "payload.">> >> >>)

InitFor(n) ==
    /\ pc = [r \in 1..n |-> "idle"]
    /\ request = [r \in 1..n |-> NoPayload]
    /\ response = [r \in 1..n |-> NoResponse]
    /\ background_tasks = [r \in 1..n |-> <<>>]
    /\ runs = [r \in 1..n |-> 0]
    /\ payload = [r \in 1..n |-> NoPayload]
    /\ database_url = [r \in 1..n |-> ""]
    /\ fut = [r \in 1..n |-> [i \in Probes |-> Pending]]
    /\ ev = [r \in 1..n |-> [i \in Probes |-> NoEvent]]
    /\ outOfOrder = [r \in 1..n |-> FALSE]
    /\ results = [r \in 1..n |-> <<>>]
    /\ formatted_results = [r \in 1..n |-> <<>>]
    /\ notification = [r \in 1..n |-> NoNotification]
    /\ posts = [r \in 1..n |-> <<>>]
    /\ task_return = [r \in 1..n |-> NotReturned]
    /\ log = [r \in 1..n |-> <<>>]
    /\ engines = [r \in 1..n |-> [i \in Probes |-> "none"]]
    /\ sql_threshold = [r \in 1..n |-> 0]

\* -------------------------------------------------------------- actions

\* Mutant of monitor: the handler waits for the pipeline instead of answering.
monitor_blocking(r, p) ==
    /\ pc[r] = "idle"
    /\ UNCHANGED <<engines, sql_threshold>>
    /\ request' = [request EXCEPT ![r] = p]
    /\ background_tasks' =
           [background_tasks EXCEPT ![r] = Append(@, [func |-> "monitor_task", args |-> p])]
    /\ pc' = [pc EXCEPT ![r] = "accepted"]
    /\ UNCHANGED <<response, runs, payload, database_url, fut, ev, outOfOrder,
                   results, formatted_results, notification, posts, task_return, log>>

\* Mutant of monitor: the task is added twice.
monitor_twice(r, p) ==
    /\ pc[r] = "idle"
    /\ UNCHANGED <<engines, sql_threshold>>
    /\ request' = [request EXCEPT ![r] = p]
    /\ background_tasks' =
           [background_tasks EXCEPT ![r] =
               @ \o << [func |-> "monitor_task", args |-> p],
                       [func |-> "monitor_task", args |-> p] >>]
    /\ response' = [response EXCEPT ![r] = Ack]
    /\ pc' = [pc EXCEPT ![r] = "accepted"]
    /\ UNCHANGED <<runs, payload, database_url, fut, ev, outOfOrder, results,
                   formatted_results, notification, posts, task_return, log>>

\* POST /tick, lines 201-204: add_task(monitor_task, payload), return the body;
\* the route's status_code is 202.
monitor(r, p) ==
    /\ pc[r] = "idle"
    /\ UNCHANGED <<engines, sql_threshold>>
    /\ request' = [request EXCEPT ![r] = p]
    /\ background_tasks' =
           [background_tasks EXCEPT ![r] = Append(@, [func |-> "monitor_task", args |-> p])]
    /\ response' = [response EXCEPT ![r] = Ack]
    /\ pc' = [pc EXCEPT ![r] = "accepted"]
    /\ UNCHANGED <<runs, payload, database_url, fut, ev, outOfOrder, results,
                   formatted_results, notification, posts, task_return, log>>

\* The framework runs the queued background task once the handler has returned.
\* monitor_task, lines 151-166: resolve database_url; without one, return the
\* error dict; otherwise create the four probes and gather them.
StartTask(r) ==
    /\ pc[r] \in {"accepted", "done"}
    /\ background_tasks[r] # <<>>
    /\ LET p == Head(background_tasks[r]).args
           url == get_setting(p, "database_url", PyNone)
       IN /\ payload' = [payload EXCEPT ![r] = p]
          /\ IF Falsy(url)
             THEN /\ task_return' = [task_return EXCEPT ![r] = NoUrlReturn]
                  /\ pc' = [pc EXCEPT ![r] = "done"]
                  /\ UNCHANGED <<database_url, fut, ev, outOfOrder, results,
                                 engines, sql_threshold>>
             ELSE /\ database_url' = [database_url EXCEPT ![r] = url]
                  /\ fut' = [fut EXCEPT ![r] = [i \in Probes |-> Pending]]
                  /\ ev' = [ev EXCEPT ![r] = [i \in Probes |-> NoEvent]]
                  /\ outOfOrder' = [outOfOrder EXCEPT ![r] = FALSE]
                  /\ results' = [results EXCEPT ![r] = [i \in Probes |-> Pending]]
                  /\ engines' = [engines EXCEPT ![r] = [i \in Probes |-> "none"]]
                  /\ sql_threshold' = [sql_threshold EXCEPT ![r] = 0]
                  /\ task_return' = [task_return EXCEPT ![r] = NotReturned]
                  /\ pc' = [pc EXCEPT ![r] = "gather"]
    /\ background_tasks' = [background_tasks EXCEPT ![r] = Tail(@)]
    /\ runs' = [runs EXCEPT ![r] = @ + 1]
    /\ UNCHANGED <<request, response, formatted_results, notification, posts, log>>

\* Probe i of run r completes (returns or raises); gather records its result.
ProbeReturn(r, i, e) ==
    /\ pc[r] = "gather"
    /\ fut[r][i] = Pending
    /\ ev[r][i] = NoEvent
    /\ LET res == ProbeResult(i, database_url[r], e)
       IN /\ fut' = [fut EXCEPT ![r][i] = res]
          /\ results' = [results EXCEPT ![r] = GatherStore(@, i, res)]
    /\ ev' = [ev EXCEPT ![r][i] = e]
    /\ engines' = [engines EXCEPT ![r][i] = EngineAfter(i, database_url[r], e)]
    /\ sql_threshold' = [sql_threshold EXCEPT ![r] =
           IF i = 4 /\ ProbeResult(i, database_url[r], e).type = "str"
           THEN threshold ELSE @]
    /\ outOfOrder' = [outOfOrder EXCEPT ![r] = @ \/ \E j \in 1..(i - 1) : fut[r][j] = Pending]
    /\ UNCHANGED <<pc, request, response, background_tasks, runs, payload,
                   database_url, formatted_results, notification, posts,
                   task_return, log>>

\* The database accepts the connection of probe i and never answers its query:
\* `await conn.execute(...)` has no timeout, the probe stays suspended.  (Probe 1
\* issues no query; connecting is bounded by the driver's default.)
ProbeHang(r, i) ==
    /\ pc[r] = "gather"
    /\ i \in 2..4
    /\ fut[r][i] = Pending
    /\ ev[r][i] = NoEvent
    /\ ~get_db_engine(database_url[r]).raised
    /\ ev' = [ev EXCEPT ![r][i] = Event("hang", <<>>, <<>>)]
    /\ UNCHANGED <<pc, request, response, background_tasks, runs, payload,
                   database_url, fut, outOfOrder, results, formatted_results,
                   notification, posts, task_return, log, engines, sql_threshold>>

\* Mutant of Aggregate: results is a module-level list, written by whichever
\* run gathered last.
AggregateSharedResults(r) ==
    /\ pc[r] = "gather"
    /\ UNCHANGED <<engines, sql_threshold>>
    /\ GatherReady(fut[r])
    /\ LET done == {q \in Reqs : GatherReady(fut[q])}
           last == CHOOSE q \in done : \A o \in done : o <= q
           results_text == ResultsText(results[last])
           status == StatusOf(results_text)
           notification_payload == NotificationPayload(results_text, status)
       IN /\ formatted_results' =
                 [formatted_results EXCEPT ![r] = FormattedResults(results[last])]
          /\ notification' = [notification EXCEPT ![r] = notification_payload]
          /\ posts' = [posts EXCEPT ![r] =
                 Append(@, [url |-> payload[r].return_url,
                            json |-> notification_payload,
                            content_type |-> "application/json"])]
    /\ pc' = [pc EXCEPT ![r] = "posting"]
    /\ UNCHANGED <<request, response, background_tasks, runs, payload,
                   database_url, fut, ev, outOfOrder, results, task_return, log>>

\* monitor_task, lines 166-193: gather has completed; format, compute the
\* status, build the notification and issue the POST to return_url.
Aggregate(r) ==
    /\ pc[r] = "gather"
    /\ UNCHANGED <<engines, sql_threshold>>
    /\ GatherReady(fut[r])
    /\ LET results_text == ResultsText(results[r])
           status == StatusOf(results_text)
           notification_payload == NotificationPayload(results_text, status)
       IN /\ formatted_results' =
                 [formatted_results EXCEPT ![r] = FormattedResults(results[r])]
          /\ notification' = [notification EXCEPT ![r] = notification_payload]
          /\ posts' = [posts EXCEPT ![r] =
                 Append(@, [url |-> payload[r].return_url,
                            json |-> notification_payload,
                            content_type |-> "application/json"])]
    /\ pc' = [pc EXCEPT ![r] = "posting"]
    /\ UNCHANGED <<request, response, background_tasks, runs, payload,
                   database_url, fut, ev, outOfOrder, results, task_return, log>>

\* Mutant of PostReturn: a failed POST is issued again.
PostReturnRetry(r, ok) ==
    /\ pc[r] = "posting"
    /\ UNCHANGED <<engines, sql_threshold>>
    /\ IF ok
       THEN /\ task_return' = [task_return EXCEPT ![r] = NoneVal]
            /\ pc' = [pc EXCEPT ![r] = "done"]
            /\ UNCHANGED posts
       ELSE /\ posts' = [posts EXCEPT ![r] = Append(@, posts[r][1])]
            /\ UNCHANGED <<task_return, pc>>
    /\ UNCHANGED <<request, response, background_tasks, runs, payload,
                   database_url, fut, ev, outOfOrder, results, formatted_results,
                   notification, log>>

\* Mutant of PostReturn: no except clause, the exception of client.post leaves
\* monitor_task.
PostReturnPropagates(r, ok) ==
    /\ pc[r] = "posting"
    /\ UNCHANGED <<engines, sql_threshold>>
    /\ task_return' = [task_return EXCEPT ![r] =
                          IF ok THEN NoneVal ELSE ExcVal(<<"ConnectError">>)]
    /\ pc' = [pc EXCEPT ![r] = "done"]
    /\ UNCHANGED <<request, response, background_tasks, runs, payload,
                   database_url, fut, ev, outOfOrder, results, formatted_results,
                   notification, posts, log>>

\* client.post returns, or raises and the except clause of monitor_task logs it
\* (lines 188-196); either way monitor_task returns None.
PostReturn(r, ok) ==
    /\ pc[r] = "posting"
    /\ UNCHANGED <<engines, sql_threshold>>
    /\ log' = [log EXCEPT ![r] =
                  IF ok THEN @ ELSE Append(@, "Unexpected error in monitor_task")]
    /\ task_return' = [task_return EXCEPT ![r] = NoneVal]
    /\ pc' = [pc EXCEPT ![r] = "done"]
    /\ UNCHANGED <<request, response, background_tasks, runs, payload,
                   database_url, fut, ev, outOfOrder, results, formatted_results,
                   notification, posts>>

\* ------------------------------------------------------- specifications

\* One trigger; every payload, every answer of the database and the network.
Init == InitFor(1)

Next ==
    \/ \E r \in Reqs : \E p \in MonitorPayLoad : monitor(r, p)
    \/ \E r \in Reqs : StartTask(r)
    \/ \E r \in Reqs : \E i \in Probes :
           \E e \in ProbeEvents(i, database_url[r]) : ProbeReturn(r, i, e)
    \/ \E r \in Reqs : Aggregate(r)
    \/ \E r \in Reqs : \E ok \in BOOLEAN : PostReturn(r, ok)

Spec == Init /\ [][Next]_vars

\* MaxReq concurrent triggers against a healthy database; payloads with at most
\* one setting.
InitTriggers == InitFor(MaxReq)

TriggerPayloads ==
    {p \in MonitorPayLoad :
        /\ Len(p.settings) <= 1
        /\ \A k \in 1..Len(p.settings) :
               p.settings[k].label = "database_url" /\ p.settings[k].default = GoodUrl}

NextTriggers ==
    \/ \E r \in Reqs : \E p \in TriggerPayloads : monitor(r, p)
    \/ \E r \in Reqs : StartTask(r)
    \/ \E r \in Reqs : \E i \in Probes :
           \E e \in HealthyEvents(i, database_url[r]) : ProbeReturn(r, i, e)
    \/ \E r \in Reqs : Aggregate(r)
    \/ \E r \in Reqs : \E ok \in BOOLEAN : PostReturn(r, ok)

SpecTriggers == InitTriggers /\ [][NextTriggers]_vars

\* Two runs side by side, the first called back at one return_url and the
\* second at the other, each probe answered by success or by one failure.
InitPair == InitFor(2)

PairEvents(i, url) ==
    {e \in ProbeEvents(i, url) :
        \/ e.kind = "ok" /\ e.rows = <<>>
        \/ e.kind = "fail" /\ e.text = <<"connection", "refused">>}

PairPayloads(r) ==
    {p \in TriggerPayloads :
        p.return_url = (IF r = 1 THEN "https://a/hook" ELSE "https://b/hook")}

NextPair ==
    \/ \E r \in Reqs : \E p \in PairPayloads(r) : monitor(r, p)
    \/ \E r \in Reqs : StartTask(r)
    \/ \E r \in Reqs : \E i \in Probes :
           \E e \in PairEvents(i, database_url[r]) : ProbeReturn(r, i, e)
    \/ \E r \in Reqs : Aggregate(r)
    \/ \E r \in Reqs : \E ok \in BOOLEAN : PostReturn(r, ok)

SpecPair == InitPair /\ [][NextPair]_vars

\* One trigger whose settings may also name a site to probe and a threshold
\* for the long-running queries, as the /tick payload of the tests does.
SiteSetting ==
    [label |-> "site", type |-> "text", required |-> FALSE,
     default |-> "https://example.com"]

ThresholdSetting ==
    [label |-> "max_query_duration", type |-> "number", required |-> TRUE,
     default |-> "5"]

DatabaseSetting ==
    [label |-> "database_url", type |-> "text", required |-> TRUE,
     default |-> GoodUrl]

SettingsPayloads ==
    [channel_id : {"c"}, return_url : {"https://a/hook"},
     settings : SeqsUpTo({DatabaseSetting, SiteSetting, ThresholdSetting}, MaxSettings)]

InitSettings == InitFor(1)

NextSettings ==
    \/ \E r \in Reqs : \E p \in SettingsPayloads : monitor(r, p)
    \/ \E r \in Reqs : StartTask(r)
    \/ \E r \in Reqs : \E i \in Probes :
           \E e \in PairEvents(i, database_url[r]) : ProbeReturn(r, i, e)
    \/ \E r \in Reqs : Aggregate(r)
    \/ \E r \in Reqs : \E ok \in BOOLEAN : PostReturn(r, ok)

SpecSettings == InitSettings /\ [][NextSettings]_vars

\* One trigger against a database that may stop answering; the event loop
\* runs whatever is ready.
InitHang == InitFor(1)

NextHang ==
    \/ \E r \in Reqs : \E p \in PairPayloads(r) : monitor(r, p)
    \/ \E r \in Reqs : StartTask(r)
    \/ \E r \in Reqs : \E i \in Probes :
           \E e \in PairEvents(i, database_url[r]) : ProbeReturn(r, i, e)
    \/ \E r \in Reqs : \E i \in Probes : ProbeHang(r, i)
    \/ \E r \in Reqs : Aggregate(r)
    \/ \E r \in Reqs : \E ok \in BOOLEAN : PostReturn(r, ok)

SpecHang == InitHang /\ [][NextHang]_vars /\ WF_vars(NextHang)

\* ----------------------------------------------------- claim vocabulary

\* The run has issued its POST.
Posted(r) == posts[r] # <<>>

\* The message of the run's (first) POST.
Message(r) == posts[r][1].json.message

\* Ground truth of probe i of run r: the environment answered it with success
\* and the probe returned (did not raise).
Succeeded(r, i) == ev[r][i].kind = "ok" /\ fut[r][i].type # "exc"

\* The database URL the run's payload resolves to.
Resolved(r) == get_setting(payload[r], "database_url", PyNone)

RECURSIVE SumLen(_, _)
SumLen(texts, n) == IF n = 0 THEN 0 ELSE Len(texts[n]) + SumLen(texts, n - 1)

\* The tokens of `message` at the place of part i when the parts before it
\* have the lengths of texts[1..i-1] and each is followed by a newline.
Segment(message, texts, i) ==
    LET off == SumLen(texts, i - 1) + (i - 1)
    IN [k \in 1..Len(texts[i]) |->
           IF off + k <= Len(message) THEN message[off + k] ELSE "<end>"]

\* ------------------------------------------------------------------ C1
\* C1: the 202 {"status": "success"} acknowledgment is produced before the
\* scheduled monitor_task starts, so before any probe finishes, before the
\* delivery POST and before the pipeline completes.
AckBeforePipeline ==
    \A r \in Reqs :
        (runs[r] > 0 \/ pc[r] \in {"gather", "posting", "done"} \/ Posted(r))
            => response[r] = Ack

\* The acknowledgment is out while no probe of the run has finished.
AckWhileNoProbeFinished ==
    \E r \in Reqs :
        /\ response[r] = Ack
        /\ pc[r] = "gather"
        /\ \A i \in Probes : fut[r][i] = Pending

\* ------------------------------------------------------------------ C2
\* C2: every accepted request has exactly one monitor_task run, queued or
\* started, and that run is called with the request's payload; a request not
\* accepted has none.
ScheduledOncePerRequest ==
    \A r \in Reqs :
        /\ Len(background_tasks[r]) + runs[r] = (IF response[r] = Ack THEN 1 ELSE 0)
        /\ \A k \in 1..Len(background_tasks[r]) :
               background_tasks[r][k] = [func |-> "monitor_task", args |-> request[r]]
        /\ runs[r] > 0 => payload[r] = request[r]

\* Several requests were accepted and the run of each has started.
AllTriggersStarted ==
    /\ Cardinality(Reqs) >= 2
    /\ \A r \in Reqs : response[r] = Ack /\ runs[r] = 1

\* ------------------------------------------------------------------ C3
\* C3: the delivered status is "error" if and only if at least one probe
\* outcome failed.
StatusErrorIffProbeFailed ==
    \A r \in Reqs :
        Posted(r) =>
            (posts[r][1].json.status = "error" <=> \E i \in Probes : ~Succeeded(r, i))

\* ------------------------------------------------------------------ C4
\* C4: a run whose settings resolve no database_url still delivers a report:
\* one POST whose message is the synthetic outcome "No database URL provided."
\* and whose status is "error".
NoUrlReportDelivered ==
    \A r \in Reqs :
        (pc[r] = "done" /\ runs[r] > 0 /\ Falsy(Resolved(r))) =>
            /\ Len(posts[r]) = 1
            /\ posts[r][1].json.status = "error"
            /\ Contains(Message(r), "provided.")

\* ------------------------------------------------------------------ C5
\* C5: with a resolvable database_url the report holds exactly four outcomes,
\* those of check_database_connection, get_database_size,
\* get_active_connections and get_long_running_queries, in this order.
FourOutcomesInFixedOrder ==
    \A r \in Reqs :
        Posted(r) =>
            /\ ~Falsy(Resolved(r))
            /\ Len(results[r]) = 4
            /\ Message(r) =
                   Join(NL, << Str(check_database_connection(Resolved(r), ev[r][1])),
                               Str(get_database_size(Resolved(r), ev[r][2])),
                               Str(get_active_connections(Resolved(r), ev[r][3])),
                               Str(get_long_running_queries(Resolved(r), ev[r][4])) >>)

\* A report was posted for a reachable database whose four probes succeeded.
FourOutcomesPosted ==
    \E r \in Reqs :
        /\ Posted(r)
        /\ Resolved(r) = GoodUrl
        /\ \A i \in Probes : Succeeded(r, i)
        /\ Len(ev[r][4].rows) = 2

\* ------------------------------------------------------------------ C6
\* What each child task of the run's gather returned, rendered with str().
Rendered(r) == [i \in Probes |-> Str(fut[r][i])]

\* C6: whatever the order in which the probes complete, the outcome of probe i
\* stands at position i of the newline-joined message.
OutcomesInSubmissionOrder ==
    \A r \in Reqs :
        Posted(r) =>
            /\ Len(Message(r)) = SumLen(Rendered(r), 4) + 3
            /\ \A i \in Probes :
                   Segment(Message(r), Rendered(r), i) = Str(fut[r][i])

\* A report was posted by a run whose probes completed out of submission order.
PostedAfterOutOfOrderCompletion ==
    \E r \in Reqs : Posted(r) /\ outOfOrder[r]

\* ------------------------------------------------------------------ C7
\* C7: when the run goes on to aggregation every probe has completed with its
\* own outcome, failed or not, gather's list holds all four, and the report is
\* built from all four.
AllProbesYieldOutcome ==
    \A r \in Reqs :
        (pc[r] = "posting" \/ Posted(r)) =>
            /\ Len(results[r]) = 4
            /\ \A i \in Probes :
                   /\ fut[r][i] # Pending
                   /\ ev[r][i] # NoEvent
                   /\ results[r][i] = fut[r][i]
            /\ Posted(r) => Message(r) = ResultsText(fut[r])

\* A report was posted by a run in which a probe raised.
PostedAfterProbeRaised ==
    \E r \in Reqs : Posted(r) /\ \E i \in Probes : fut[r][i].type = "exc"

\* ------------------------------------------------------------------ C8
\* C8: two runs against the same database whose probes other than x got the
\* same answers render the outcomes of those probes identically, whatever
\* happened to x.
OtherOutcomesUnchanged ==
    \A r1 \in Reqs : \A r2 \in Reqs : \A x \in Probes :
        ( /\ Posted(r1) /\ Posted(r2)
          /\ database_url[r1] = database_url[r2]
          /\ \A i \in Probes \ {x} : ev[r1][i] = ev[r2][i] )
        => \A i \in Probes \ {x} :
               Segment(Message(r1), Rendered(r1), i) =
                   Segment(Message(r2), Rendered(r2), i)

\* Two posted runs that differ only in that one probe succeeded in the first
\* and failed in the second.
RunsDifferInOneProbe ==
    \E r1 \in Reqs : \E r2 \in Reqs : \E x \in Probes :
        /\ Posted(r1) /\ Posted(r2)
        /\ database_url[r1] = database_url[r2]
        /\ Succeeded(r1, x) /\ ~Succeeded(r2, x)
        /\ \A i \in Probes \ {x} : ev[r1][i] = ev[r2][i]

\* ------------------------------------------------------------------ C9
\* C9: a run issues at most one POST, to its request's return_url, only once
\* all four probes have completed, and none after a failed POST.
AtMostOnePostAfterFanIn ==
    \A r \in Reqs :
        /\ Len(posts[r]) <= 1
        /\ Posted(r) =>
               /\ \A i \in Probes : fut[r][i] # Pending
               /\ posts[r][1].url = request[r].return_url
        /\ pc[r] \in {"idle", "accepted", "gather"} => ~Posted(r)

\* The POST failed, the run is over, and there was one POST.
FailedPostNotRetried ==
    \E r \in Reqs : pc[r] = "done" /\ log[r] # <<>> /\ Len(posts[r]) = 1

\* ----------------------------------------------------------------- C10
\* C10: every posted body has exactly the fields message, username,
\* event_name and status; username is "DB Monitor", event_name is
\* "Database Check" and status is "success" or "error".
PostedBodyShape ==
    \A r \in Reqs : \A k \in 1..Len(posts[r]) :
        LET body == posts[r][k].json
        IN /\ DOMAIN body = {"message", "username", "event_name", "status"}
           /\ body.username = "DB Monitor"
           /\ body.event_name = "Database Check"
           /\ body.status \in {"success", "error"}

\* A body with status "error" was posted and the run is over.
ErrorBodyPosted ==
    \E r \in Reqs :
        pc[r] = "done" /\ Posted(r) /\ posts[r][1].json.status = "error"

\* ----------------------------------------------------------------- C11
\* C11: a finished monitor_task has returned (None, or the error dict of the
\* missing database_url) and has not raised, a failure of the POST is one
\* logged line, and the request's acknowledgment is still the 202 body.
NoExceptionLeavesTask ==
    \A r \in Reqs :
        /\ task_return[r].type # "exc"
        /\ (pc[r] = "done" /\ runs[r] > 0) =>
               /\ task_return[r] \in {NoneVal, NoUrlReturn}
               /\ response[r] = Ack
        /\ log[r] \in {<<>>, <<"Unexpected error in monitor_task">>}
        /\ log[r] # <<>> => (pc[r] = "done" /\ task_return[r] = NoneVal)

\* The POST failed: the run is over, returned None, logged, and the
\* acknowledgment stands.
PostFailureOnlyLogged ==
    \E r \in Reqs :
        /\ pc[r] = "done" /\ Posted(r)
        /\ log[r] = <<"Unexpected error in monitor_task">>
        /\ task_return[r] = NoneVal
        /\ response[r] = Ack

\* ----------------------------------------------------------------- C12
\* The number of site settings of a payload.
SiteCount(p) == Cardinality({k \in 1..Len(p.settings) : p.settings[k].label = "site"})

\* C12: a run whose payload has n site settings reports n site outcomes
\* followed by the four database outcomes, and its site probes run, and their
\* report is posted, also when no database_url resolves.
SiteOutcomesInReport ==
    \A r \in Reqs :
        /\ Posted(r) => Len(results[r]) = SiteCount(payload[r]) + 4
        /\ (pc[r] = "done" /\ runs[r] > 0 /\ SiteCount(payload[r]) > 0) => Posted(r)

\* ----------------------------------------------------------------- C13
\* Everything the model holds for run r.
RunState(r) ==
    <<pc[r], request[r], response[r], background_tasks[r], runs[r], payload[r],
      database_url[r], fut[r], ev[r], outOfOrder[r], results[r],
      formatted_results[r], notification[r], posts[r], task_return[r], log[r],
      engines[r], sql_threshold[r]>>

\* C13: with runs in flight together, the report a run posts is built from
\* the results of its own four probes and goes to its own request's
\* return_url, and no step changes the state of two runs.
RunsIndependent ==
    /\ [](\A r \in Reqs :
            Posted(r) =>
                /\ posts[r][1].url = request[r].return_url
                /\ Message(r) = Join(NL, Rendered(r))
                /\ posts[r][1].json.status = StatusOf(Join(NL, Rendered(r))))
    /\ [][\A r1 \in Reqs : \A r2 \in Reqs :
            r1 # r2 => (RunState(r1)' = RunState(r1) \/ RunState(r2)' = RunState(r2))]_vars

\* The POSTs of two runs are in flight together, to different URLs and with
\* different messages.
TwoPostsInFlight ==
    \E r1 \in Reqs : \E r2 \in Reqs :
        /\ pc[r1] = "posting" /\ pc[r2] = "posting"
        /\ posts[r1][1].url # posts[r2][1].url
        /\ Message(r1) # Message(r2)

\* ----------------------------------------------------------------- C14
\* C14: a probe that has completed has released the pool or engine it
\* created, so after a batch none of the four is left undisposed.
EnginesReleased ==
    \A r \in Reqs : \A i \in Probes :
        fut[r][i] # Pending => engines[r][i] # "open"

\* ----------------------------------------------------------------- C15
\* C15: a pipeline that has started eventually finishes, whatever the
\* database does.
PipelineEventuallyFinishes == (runs[1] > 0) ~> (pc[1] = "done")

\* ----------------------------------------------------------------- C16
Labels == {"database_url", "Interval", "site"}
Fallbacks == {PyNone, "fallback"}

\* Positions of the settings carrying a label.
Hits(settings, label) == {k \in DOMAIN settings : settings[k].label = label}

Lowest(S) == CHOOSE k \in S : \A j \in S : k <= j

\* C16: on the payload of every started run, get_setting yields the default
\* of the lowest-positioned setting with the label, the fallback when there is
\* none; the run works on the settings as they were sent, and the database URL
\* it probes is the one so looked up.
FirstMatchWins ==
    \A r \in Reqs :
        runs[r] > 0 =>
            /\ payload[r] = request[r]
            /\ \A label \in Labels : \A fb \in Fallbacks :
                   LET settings == payload[r].settings
                       hits == Hits(settings, label)
                   IN get_setting(payload[r], label, fb) =
                          IF hits = {} THEN fb
                          ELSE settings[Lowest(hits)].default
            /\ pc[r] \in {"gather", "posting"} =>
                   LET hits == Hits(payload[r].settings, "database_url")
                   IN /\ hits # {}
                      /\ database_url[r] = payload[r].settings[Lowest(hits)].default

\* Two settings share the label database_url with different defaults and the
\* run probes the first one's.
DuplicateLabelFirstUsed ==
    \E r \in Reqs :
        /\ pc[r] = "gather"
        /\ Len(payload[r].settings) = 2
        /\ payload[r].settings[1].label = "database_url"
        /\ payload[r].settings[2].label = "database_url"
        /\ payload[r].settings[1].default # payload[r].settings[2].default
        /\ database_url[r] = payload[r].settings[1].default

\* ----------------------------------------------------------------- C17
\* The number of seconds a settings default denotes.
SecondsOf(text) == IF text = "5" THEN 5 ELSE 10

\* The threshold the request asks for: its max_query_duration setting when
\* there is one, 10 seconds otherwise.
RequestedThreshold(p) ==
    LET hits == Hits(p.settings, "max_query_duration")
    IN IF hits = {} THEN 10 ELSE SecondsOf(p.settings[Lowest(hits)].default)

\* C17: the long-running-queries statement is issued with the threshold the
\* request's settings give, 10 seconds when they give none; an empty result
\* yields "No long-running queries" and is not a failed outcome.
ThresholdFromSettings ==
    \A r \in Reqs :
        /\ sql_threshold[r] # 0 => sql_threshold[r] = RequestedThreshold(payload[r])
        /\ (ev[r][4] # NoEvent /\ ev[r][4].kind = "ok" /\ ev[r][4].rows = <<>>
                /\ fut[r][4] # Pending) =>
               /\ fut[r][4] = StrVal(<<"No", "long-running", "queries">>)
               /\ ~Contains(Str(fut[r][4]), "Error")

\* ----------------------------------------------------------------- C18
\* The raw results of the run, each rendered with str(), joined by newlines.
RawText(r) == Join(NL, Rendered(r))

\* C18: the delivered status is "error" exactly when the newline-joined str()
\* of the four raw results contains "Error", "success" otherwise; the delivered
\* message is that text, whatever formatted_results holds.
StatusFromRawText ==
    \A r \in Reqs : \A k \in 1..Len(posts[r]) :
        /\ posts[r][k].json.message = RawText(r)
        /\ posts[r][k].json.status = "error" <=> Contains(RawText(r), "Error")
        /\ posts[r][k].json.status = "success" <=> ~Contains(RawText(r), "Error")

\* A probe raised, formatted_results marks it with "Error", and the report
\* posted carries the raw text and status "success".
FormattedErrorNotDelivered ==
    \E r \in Reqs :
        /\ Posted(r)
        /\ \E i \in Probes :
               /\ fut[r][i].type = "exc"
               /\ Contains(formatted_results[r][i], "Error")
        /\ posts[r][1].json.status = "success"
        /\ ~Contains(Message(r), "Error")

====
